---- MODULE Spec2Model ----
(***************************************************************************)
(* Model of ordsearch's OrderedCollection (src/src/lib.rs): construction   *)
(* of the Eytzinger layout by eytzinger_walk / from_sorted_iter, the       *)
(* search find_gte and the helper prefetch_mask.                           *)
(*                                                                         *)
(* The machine word (usize) is scaled down to WordBits bits; every         *)
(* word-sized computation is done modulo 2^WordBits.  The build profile    *)
(* (overflow checks on, as in dev/test builds, or off, as in release       *)
(* builds) is not fixed by the sources, so it is chosen in Init.           *)
(***************************************************************************)
EXTENDS Integers, Sequences, FiniteSets, TLC

(* ------------------------------ bounds --------------------------------- *)
MaxLen == 4        \* longest input sequence
MaxVal == 2        \* stored values are 0..MaxVal
WordBits == 8      \* width of the scaled-down usize

(* ------------------------- program constants --------------------------- *)
level == 64        \* lib.rs:389  let level: usize = 64
CacheLine == 64    \* lib.rs:392  the 64 of 64 / 2 / size_of::<T>()

Values == 0 .. MaxVal
Queries == 0 .. (MaxVal + 1)
\* size_of::<T>() of the element types modelled: u32 (the benchmark's) and a
\* cache-line sized key; zero-sized types are left out
ElemSizes == {4, 64}
Uninit == -1                  \* a slot of the allocation not yet written

VARIABLES
  overflow_checks,  \* build profile: TRUE = arithmetic overflow panics
  size_of_T,        \* mem::size_of::<T>()
  entry,            \* which constructor was called
  arg,              \* the sequence handed to the constructor
  iter,             \* what the source iterator still yields
  n,                \* iter.len() as declared by ExactSizeIterator
  items,            \* the Vec's allocation, slot i at items[i+1]
  len,              \* the Vec's length
  wlog,             \* indices written by eytzinger_walk, in order
  stack,            \* call stack of eytzinger_walk
  phase,            \* "new", "walking", "built", "panicked"
  q,                \* outcome of the latest find_gte call
  first,            \* outcome of the first find_gte call on the collection
  qe,               \* outcome of the latest call of the early-exit variant
  mn,               \* argument of prefetch_mask
  mres              \* result of prefetch_mask, -1 before the call

vars == <<overflow_checks, size_of_T, entry, arg, iter, n, items, len, wlog,
          stack, phase, q, first, qe, mn, mres>>

(* ------------------------------ helpers -------------------------------- *)
RECURSIVE Pow2(_)
Pow2(k) == IF k = 0 THEN 1 ELSE 2 * Pow2(k - 1)

MaxWord == Pow2(WordBits) - 1          \* usize::MAX
Wrap(v) == v % Pow2(WordBits)          \* wrapping arithmetic
Fits(v) == v >= 0 /\ v <= MaxWord

Min2(a, b) == IF a < b THEN a ELSE b

\* get_unchecked(i); a read outside the allocation yields no stored value
At(buf, i) == IF i < Len(buf) THEN buf[i + 1] ELSE Uninit

RECURSIVE SeqsUpTo(_)
SeqsUpTo(k) ==
  IF k = 0 THEN {<<>>}
  ELSE LET S == SeqsUpTo(k - 1)
       IN  S \cup {Append(s, v) : s \in {t \in S : Len(t) = k - 1}, v \in Values}

Inputs == SeqsUpTo(MaxLen)

RECURSIVE InsertSorted(_, _)
InsertSorted(s, v) ==
  IF s = <<>> THEN <<v>>
  ELSE IF v <= Head(s) THEN <<v>> \o s
  ELSE <<Head(s)>> \o InsertSorted(Tail(s), v)

RECURSIVE sort_unstable(_)
sort_unstable(s) ==
  IF s = <<>> THEN <<>> ELSE InsertSorted(sort_unstable(Tail(s)), Head(s))

IsSorted(s) == \A k \in 1 .. (Len(s) - 1) : s[k] <= s[k + 1]

(* --------------------------- construction ------------------------------ *)
\* the capacity test at the head of eytzinger_walk
OutOfCapacityOffByOne(i, cap) == i > cap
OutOfCapacity(i, cap) == i >= cap

LeftChildIsRight(i) == 2 * i + 2
LeftChild(i) == 2 * i + 1
RightChild(i) == 2 * i + 2

Frame(i, pc) == [i |-> i, pc |-> pc]
Top == stack[Len(stack)]
Pop == SubSeq(stack, 1, Len(stack) - 1)

NoQuery == [status |-> "none", x |-> 0, found |-> FALSE, idx |-> 0, value |-> 0,
            iters |-> 0, reads |-> {}, hints |-> {}, overflowed |-> {},
            path |-> <<>>, turns |-> <<>>, hintAt |-> <<>>, fin |-> 0]

\* from_sorted_iter up to and including the call eytzinger_walk(&mut context, 0)
\* Vec::with_capacity(n) of a sized T allocates exactly n slots, so the
\* capacity eytzinger_walk tests against is Len(items) = declared.
StartWalk(src, declared) ==
  /\ iter' = src
  /\ n' = declared
  /\ items' = [k \in 1 .. declared |-> Uninit]
  /\ len' = 0
  /\ wlog' = <<>>
  /\ stack' = <<Frame(0, "enter")>>
  /\ phase' = "walking"

\* impl From<Vec<T>>: sort, then from_sorted_iter
From(v) ==
  /\ phase = "new"
  /\ entry' = "from"
  /\ arg' = v
  /\ StartWalk(sort_unstable(v), Len(v))
  /\ UNCHANGED <<overflow_checks, size_of_T, q, first, qe, mn, mres>>

\* from_sorted_iter on a source that yields src and declares length declared
FromSortedIter(src, declared) ==
  /\ phase = "new"
  /\ entry' = "from_sorted_iter"
  /\ arg' = src
  /\ StartWalk(src, declared)
  /\ UNCHANGED <<overflow_checks, size_of_T, q, first, qe, mn, mres>>

\* eytzinger_walk entry: the capacity test, then the call on the left child
WalkEnter ==
  /\ phase = "walking" /\ stack # <<>> /\ Top.pc = "enter"
  /\ IF OutOfCapacity(Top.i, Len(items))
       THEN stack' = Pop
       ELSE stack' = Append(Append(Pop, Frame(Top.i, "put")),
                            Frame(LeftChild(Top.i), "enter"))
  /\ UNCHANGED <<overflow_checks, size_of_T, entry, arg, iter, n, items, len,
                 wlog, phase, q, first, qe, mn, mres>>

\* iter.next().unwrap(), the raw write, then the call on the right child
WalkPut ==
  /\ phase = "walking" /\ stack # <<>> /\ Top.pc = "put"
  /\ iter # <<>>
  /\ items' = [items EXCEPT ![Top.i + 1] = Head(iter)]
  /\ iter' = Tail(iter)
  /\ wlog' = Append(wlog, Top.i)
  /\ stack' = Append(Append(Pop, Frame(Top.i, "ret")),
                     Frame(RightChild(Top.i), "enter"))
  /\ UNCHANGED <<overflow_checks, size_of_T, entry, arg, n, len, phase, q,
                 first, qe, mn, mres>>

\* as if a missing item were skipped instead of unwrapped
WalkSkipMissing ==
  /\ phase = "walking" /\ stack # <<>> /\ Top.pc = "put"
  /\ iter = <<>>
  /\ stack' = Append(Append(Pop, Frame(Top.i, "ret")),
                     Frame(RightChild(Top.i), "enter"))
  /\ UNCHANGED <<overflow_checks, size_of_T, entry, arg, iter, n, items, len,
                 wlog, phase, q, first, qe, mn, mres>>

\* iter.next() is None: unwrap panics, the context is dropped with len 0
WalkPanic ==
  /\ phase = "walking" /\ stack # <<>> /\ Top.pc = "put"
  /\ iter = <<>>
  /\ phase' = "panicked"
  /\ stack' = <<>>
  /\ UNCHANGED <<overflow_checks, size_of_T, entry, arg, iter, n, items, len,
                 wlog, q, first, qe, mn, mres>>

\* the right child's call has returned: the frame returns
WalkReturn ==
  /\ phase = "walking" /\ stack # <<>> /\ Top.pc = "ret"
  /\ stack' = Pop
  /\ UNCHANGED <<overflow_checks, size_of_T, entry, arg, iter, n, items, len,
                 wlog, phase, q, first, qe, mn, mres>>

\* eytzinger_walk(.., 0) has returned: set_len(n) and hand out the collection
SetLen ==
  /\ phase = "walking" /\ stack = <<>>
  /\ len' = n
  /\ phase' = "built"
  /\ UNCHANGED <<overflow_checks, size_of_T, entry, arg, iter, n, items, wlog,
                 stack, q, first, qe, mn, mres>>

(* ------------------------------ search --------------------------------- *)
\* usize::leading_zeros / trailing_zeros, bitwise not, and >> on the word
leading_zeros(v) ==
  CHOOSE k \in 0 .. WordBits :
    \/ k = WordBits /\ v = 0
    \/ k < WordBits /\ v \div Pow2(WordBits - 1 - k) = 1

trailing_zeros(v) ==
  CHOOSE k \in 0 .. WordBits :
    \/ k = WordBits /\ v = 0
    \/ k < WordBits /\ v % Pow2(k) = 0 /\ (v \div Pow2(k)) % 2 = 1

Not(v) == MaxWord - v

Shr(v, s) == v \div Pow2(s % WordBits)     \* shift amount masked to the width

\* shifting one bit too far
prefetch_mask_short(k) ==
  IF k > 0 THEN Shr(MaxWord, leading_zeros(k) + 1) ELSE 0

prefetch_mask(k) ==
  IF k > 0 THEN Shr(MaxWord, leading_zeros(k)) ELSE 0

\* 2usize.pow(e): the mathematical result does not fit from e = WordBits on
pow_overflows(e) == e >= WordBits
wrapping_pow(e) == IF e >= WordBits THEN 0 ELSE Pow2(e)

\* const MULTIPLIER / const OFFSET of OrderedCollection<T>
MULTIPLIER(sz) == CacheLine \div sz
OFFSET(sz) == MULTIPLIER(sz) + MULTIPLIER(sz) \div 2

cachline_off(sz) == (CacheLine \div 2) \div sz

\* (mul * i + mul_off + cachline_off), operation by operation
PrefetchSum(mul, mul_off, i, sz) ==
  LET t1 == mul * i
      t2 == Wrap(t1) + mul_off
      t3 == Wrap(t2) + cachline_off(sz)
  IN  [value |-> Wrap(t3), overflow |-> ~Fits(t1) \/ ~Fits(t2) \/ ~Fits(t3)]

\* .min(collection.items.len() - 1)
PrefetchOffset(sum, ln) == Min2(sum, ln - 1)

LoopGuardInclusive(i, ln) == i <= ln
LoopGuard(i, ln) == i < ln

NextIndexLinear(i, x, value) == i + 1 + (IF x > value THEN 1 ELSE 0)
NextIndexReversed(i, x, value) == 2 * i + 1 + (IF x < value THEN 1 ELSE 0)
NextIndex(i, x, value) == 2 * i + 1 + (IF x > value THEN 1 ELSE 0)

\* the shift without its + 1
DecodeShortShift(i) == Shr(i + 1, trailing_zeros(Not(i + 1)))

\* j = (i + 1) >> ((!(i + 1)).trailing_zeros() + 1)
Decode(i) == Shr(i + 1, trailing_zeros(Not(i + 1)) + 1)

\* as if the early exit fired on the first value not below x
EarlyHitGe(value, x) == value >= x

\* if value == x { return Some(value) }
EarlyHit(value, x) == value = x

\* the while loop of find_gte; st is the loop's state
RECURSIVE Traverse(_, _, _, _, _, _, _, _, _)
Traverse(its, ln, x, sz, checks, PREFETCH, BRANCHLESS, mm, st) ==
  IF ~LoopGuard(st.i, ln) THEN st
  ELSE
    LET sum == PrefetchSum(mm.mul, mm.mul_off, st.i, sz)
        ov == PREFETCH /\ sum.overflow
        hs == IF PREFETCH THEN st.hints \cup {PrefetchOffset(sum.value, ln)}
              ELSE st.hints
        value == At(its, st.i)
        seen == [st EXCEPT !.iters = @ + 1, !.reads = @ \cup {st.i},
                           !.hints = hs,
                           !.overflowed = IF ov THEN @ \cup {"prefetch"} ELSE @,
                           !.path = Append(@, st.i),
                           !.hintAt = IF PREFETCH
                                        THEN Append(@, PrefetchOffset(sum.value, ln))
                                        ELSE @]
    IN  IF ov /\ checks
          THEN [st EXCEPT !.exit = "panic", !.overflowed = @ \cup {"prefetch"}]
        ELSE IF ~BRANCHLESS /\ EarlyHit(value, x)
          THEN [seen EXCEPT !.exit = "hit"]
        ELSE Traverse(its, ln, x, sz, checks, PREFETCH, BRANCHLESS, mm,
               [seen EXCEPT !.i = NextIndex(st.i, x, value),
                            !.turns = Append(@, IF x > value THEN 1 ELSE 0)])

Outcome(status, x, found, idx, value, st) ==
  [status |-> status, x |-> x, found |-> found, idx |-> idx, value |-> value,
   iters |-> st.iters, reads |-> st.reads, hints |-> st.hints,
   overflowed |-> st.overflowed,
   path |-> st.path, turns |-> st.turns, hintAt |-> st.hintAt, fin |-> st.i]

\* fn find_gte<T, PREFETCH, BRANCHLESS>(collection, x)
find_gte(its, ln, x, sz, checks, PREFETCH, BRANCHLESS) ==
  LET st0 == [i |-> 0, iters |-> 0, reads |-> {}, hints |-> {},
              overflowed |-> {}, exit |-> "loop",
              path |-> <<>>, turns |-> <<>>, hintAt |-> <<>>]
      powOv == pow_overflows(level)
      mul == wrapping_pow(level)
      offOv == ~Fits(mul - 1)
      mul_off == Wrap(mul - 1)
      st1 == [st0 EXCEPT !.overflowed =
                (IF powOv THEN {"pow"} ELSE {}) \cup
                (IF offOv THEN {"mul_off"} ELSE {})]
  IN  IF checks /\ powOv
        THEN Outcome("panic", x, FALSE, 0, 0, [st0 EXCEPT !.overflowed = {"pow"}])
      ELSE IF checks /\ offOv
        THEN Outcome("panic", x, FALSE, 0, 0, st1)
      ELSE
        LET st == Traverse(its, ln, x, sz, checks, PREFETCH, BRANCHLESS,
                           [mul |-> mul, mul_off |-> mul_off], st1)
            j == Decode(st.i)
        IN  IF st.exit = "panic" THEN Outcome("panic", x, FALSE, 0, 0, st)
            ELSE IF st.exit = "hit"
              THEN Outcome("returned", x, TRUE, st.i, At(its, st.i), st)
            ELSE IF j = 0 THEN Outcome("returned", x, FALSE, 0, 0, st)
            ELSE Outcome("returned", x, TRUE, j - 1,
                         At(its, j - 1), st)

\* as if the call stored the query at the root
FindGteItemsWrite(its, x) == IF its = <<>> THEN its ELSE [its EXCEPT ![1] = x]

\* find_gte borrows the collection shared: the buffer as the call leaves it
FindGteItems(its, x) == its

\* OrderedCollection::find_gte: find_gte::<_, true, true>(self, x.borrow())
Query(x) ==
  /\ phase = "built"
  /\ q' = find_gte(items, len, x, size_of_T, overflow_checks, TRUE, TRUE)
  /\ first' = IF first.status = "none" THEN q' ELSE first
  /\ items' = FindGteItems(items, x)
  /\ UNCHANGED <<overflow_checks, size_of_T, entry, arg, iter, n, len, wlog,
                 stack, phase, qe, mn, mres>>

\* find_gte::<T, true, true> and find_gte::<T, true, false>, called directly
FindGteFixedDepth(x) ==
  /\ phase = "built"
  /\ q' = find_gte(items, len, x, size_of_T, overflow_checks, TRUE, TRUE)
  /\ items' = FindGteItems(items, x)
  /\ UNCHANGED <<overflow_checks, size_of_T, entry, arg, iter, n, len, wlog,
                 stack, phase, first, qe, mn, mres>>

FindGteEarlyExit(x) ==
  /\ phase = "built"
  /\ qe' = find_gte(items, len, x, size_of_T, overflow_checks, TRUE, FALSE)
  /\ items' = FindGteItems(items, x)
  /\ UNCHANGED <<overflow_checks, size_of_T, entry, arg, iter, n, len, wlog,
                 stack, phase, q, first, mn, mres>>

DeclaredLens(src) == {d \in 0 .. (MaxLen + 1) : d - Len(src) \in {-1, 0, 1}}

Init ==
  /\ overflow_checks \in BOOLEAN
  /\ size_of_T \in ElemSizes
  /\ entry = "none" /\ arg = <<>> /\ iter = <<>> /\ n = 0
  /\ items = <<>> /\ len = 0 /\ wlog = <<>> /\ stack = <<>>
  /\ phase = "new"
  /\ q = NoQuery /\ first = NoQuery /\ qe = NoQuery
  /\ mn = 0 /\ mres = -1

Next ==
  \/ phase = "new" /\ \E v \in Inputs : From(v)
  \/ phase = "new" /\ \E src \in Inputs : \E d \in DeclaredLens(src) :
                         FromSortedIter(src, d)
  \/ WalkEnter
  \/ WalkPut
  \/ WalkPanic
  \/ WalkReturn
  \/ SetLen
  \/ \E x \in Queries : Query(x)

Spec == Init /\ [][Next]_vars

(* ------- the two BRANCHLESS variants on collections built by From ------ *)
VariantsNext ==
  \/ phase = "new" /\ \E v \in Inputs : From(v)
  \/ WalkEnter
  \/ WalkPut
  \/ WalkReturn
  \/ SetLen
  \/ \E x \in Queries : FindGteFixedDepth(x)
  \/ \E x \in Queries : FindGteEarlyExit(x)

VariantsSpec == Init /\ [][VariantsNext]_vars

(* ------------------- prefetch_mask on its own ------------------------- *)
MaskInit ==
  /\ overflow_checks = FALSE /\ size_of_T = 4
  /\ entry = "none" /\ arg = <<>> /\ iter = <<>> /\ n = 0
  /\ items = <<>> /\ len = 0 /\ wlog = <<>> /\ stack = <<>>
  /\ phase = "new"
  /\ q = NoQuery /\ first = NoQuery /\ qe = NoQuery
  /\ mn \in 0 .. MaxWord /\ mres = -1

CallMask ==
  /\ mres = -1
  /\ mres' = prefetch_mask(mn)
  /\ UNCHANGED <<overflow_checks, size_of_T, entry, arg, iter, n, items, len,
                 wlog, stack, phase, q, first, qe, mn>>

MaskNext == CallMask

MaskSpec == MaskInit /\ [][MaskNext]_vars
(* ============================ properties =============================== *)
Range(s) == {s[k] : k \in 1 .. Len(s)}
MinOf(S) == CHOOSE m \in S : \A v \in S : m <= v
Source == IF entry = "from" THEN sort_unstable(arg) ELSE arg
Asked == phase = "built" /\ q.status # "none"
Returned == phase = "built" /\ q.status = "returned"
GteSet(x) == {v \in Range(arg) : v >= x}

\* in-order traversal of the implicit tree on m slots, from node i
RECURSIVE InOrder(_, _)
InOrder(i, m) ==
  IF i >= m THEN <<>>
  ELSE InOrder(2 * i + 1, m) \o <<i>> \o InOrder(2 * i + 2, m)

CeilLog2(m) == CHOOSE k \in 0 .. WordBits : Pow2(k) >= m /\ (k = 0 \/ Pow2(k - 1) < m)
FloorLog2(m) == CHOOSE k \in 0 .. WordBits : Pow2(k) <= m /\ Pow2(k + 1) > m

\* C1: for every vector V and query x, OrderedCollection::from(V).find_gte(x)
\* returns the value min{v in V : v >= x}, and None when no element is >= x.
C1_FindGteIsLinearScan ==
  (Asked /\ entry = "from") =>
     /\ q.status = "returned"
     /\ q.found = (GteSet(q.x) # {})
     /\ q.found => q.value = MinOf(GteSet(q.x))

\* What remains of C1 in the calls that do return (builds without overflow
\* checks): the value returned is the linear scan's.
FindGteIsLinearScanWhenItReturns ==
  (Returned /\ entry = "from") =>
     /\ q.found = (GteSet(q.x) # {})
     /\ q.found => q.value = MinOf(GteSet(q.x))

\* C2: after from_sorted_iter on a non-decreasing sequence of length n the
\* buffer has length n and the in-order traversal of the implicit tree reads
\* the input sequence, slot by slot, so the values read are non-decreasing.
C2_InOrderIsInput ==
  (phase = "built" /\ IsSorted(Source) /\ n = Len(Source)) =>
     /\ len = n /\ Len(items) = n
     /\ Len(InOrder(0, n)) = n
     /\ \A k \in 1 .. n : At(items, InOrder(0, n)[k]) = Source[k]
     /\ IsSorted([k \in 1 .. n |-> At(items, InOrder(0, n)[k])])

C2_Witness ==
  /\ phase = "built" /\ entry = "from_sorted_iter" /\ n = Len(arg) /\ n = 4
  /\ IsSorted(arg) /\ arg[1] < arg[4]

\* C3: with a source that yields its declared n items, eytzinger_walk writes
\* every index in [0, n) exactly once and none >= n, takes exactly n items and
\* never asks an exhausted source, all while the length is still 0.
C3_EachSlotWrittenOnce ==
  (Len(Source) >= n /\ phase # "new") =>
     /\ phase # "panicked"
     /\ \A k \in 1 .. Len(wlog) : wlog[k] < n
     /\ \A k, m \in 1 .. Len(wlog) : k # m => wlog[k] # wlog[m]
     /\ Len(iter) = Len(Source) - Len(wlog)
     /\ phase = "walking" => len = 0
     /\ phase = "built" => (Len(wlog) = n /\ Range(wlog) = 0 .. (n - 1))
     /\ \A i \in 0 .. (n - 1) : (At(items, i) = Uninit) = (i \notin Range(wlog))

C3_Witness ==
  /\ phase = "built" /\ n = 4 /\ Len(Source) >= n /\ len = 4 /\ Len(wlog) = 4

\* C4: every find_gte call completes without a fatal abort and none of its
\* arithmetic (2^level, 2^level - 1, the prefetch sum, the index update, the
\* decode) overflows or underflows the machine word.
C4_NoOverflowNoAbort ==
  Asked => (q.status = "returned" /\ q.overflowed = {})

\* C5: on a collection built by from_sorted_iter from any sequence, sorted or
\* not, find_gte reads only indices in [0, n) and its result is None or a
\* stored element.
C5_ReadsInRange ==
  Asked =>
     /\ \A i \in q.reads : i >= 0 /\ i < len
     /\ (q.status = "returned" /\ q.found) =>
           (q.idx >= 0 /\ q.idx < len /\ q.value = At(items, q.idx)
            /\ q.value # Uninit)

C5_Witness ==
  /\ Returned /\ entry = "from_sorted_iter" /\ ~IsSorted(arg) /\ len >= 3
  /\ q.found /\ Cardinality(q.reads) >= 2

\* C6 as stated: the loop performs exactly ceil(log2(n+1)) iterations for
\* every query on a collection of n > 0 elements.
C6_ExactlyCeilLog2 ==
  (Returned /\ len > 0) => q.iters = CeilLog2(len + 1)

\* C6 amended: the loop performs at most ceil(log2(n+1)) iterations and, in a
\* call that returns, at least floor(log2(n+1)); the two agree exactly when
\* n + 1 is a power of two.
C6_IterationsWithinHeight ==
  (Asked /\ len > 0) =>
     /\ q.iters <= CeilLog2(len + 1)
     /\ q.iters = Cardinality(q.reads)
     /\ q.status = "returned" => q.iters >= FloorLog2(len + 1)

C6_Witness ==
  /\ Returned /\ len > 0 /\ q.iters = FloorLog2(len + 1)
  /\ q.iters < CeilLog2(len + 1)

\* C7: on a collection built from a sorted integer sequence, if find_gte(x+1)
\* returns w then find_gte(x) returns some v <= w, and if find_gte(x) is None
\* so is find_gte(x+1).
Monotone(a, b) ==
  (a.status = "returned" /\ b.status = "returned" /\ b.x = a.x + 1) =>
     /\ b.found => (a.found /\ a.value <= b.value)
     /\ ~a.found => ~b.found

C7_Monotone ==
  (phase = "built" /\ IsSorted(Source)) =>
     (Monotone(first, q) /\ Monotone(q, first))

C7_Witness ==
  /\ phase = "built" /\ IsSorted(Source) /\ first.status = "returned"
  /\ q.status = "returned" /\ q.x = first.x + 1
  /\ first.found /\ q.found /\ first.value < q.value

C9_ShortSourceAborts ==
  /\ Len(Source) < n => (phase # "built" /\ len = 0)
  /\ phase = "panicked" => (Len(Source) < n /\ len = 0)
  /\ phase = "built" =>
        /\ len = n /\ Len(Source) >= n
        /\ \A i \in 0 .. (len - 1) : At(items, i) # Uninit
        /\ iter = SubSeq(Source, n + 1, Len(Source))
        /\ \A k \in 1 .. n : At(items, InOrder(0, n)[k]) = Source[k]

C9_Witness ==
  /\ phase = "panicked" /\ Len(Source) < n /\ Len(wlog) >= 2 /\ len = 0

\* C10: prefetch_mask(n) is the smallest value of the form 2^k - 1 that is
\* >= n: 0 for 0, 1 for 1, 3 for 2 and 3, 7 for 4, usize::MAX for usize::MAX.
MaskValues == {Pow2(k) - 1 : k \in 0 .. WordBits}

C10_SmallestCoveringMask ==
  (mres # -1) =>
     /\ mres \in MaskValues /\ mres >= mn
     /\ \A m \in MaskValues : m >= mn => mres <= m
     /\ mn = 0 => mres = 0
     /\ mn = 1 => mres = 1
     /\ mn \in {2, 3} => mres = 3
     /\ mn = 4 => mres = 7
     /\ mn = MaxWord => mres = MaxWord

C10_Witness == mn = 4 /\ mres = 7
\* C11: when the loop ends at the out-of-range index i, the decoded j is 0
\* exactly when no visited node sent the traversal left, and otherwise j - 1
\* is the last visited node that did; in the layout of a sorted sequence that
\* node holds the smallest stored value >= x.
Stored == {At(items, i) : i \in 0 .. (len - 1)}
LeftTurns(o) == {k \in 1 .. Len(o.turns) : o.turns[k] = 0}
MaxOf(S) == CHOOSE m \in S : \A v \in S : m >= v

C11_DecodeIsLastLeftTurn ==
  Returned =>
     /\ q.fin >= len /\ Len(q.turns) = Len(q.path)
     /\ \A k \in 1 .. Len(q.path) :
           /\ q.path[k] = (IF k = 1 THEN 0 ELSE 2 * q.path[k - 1] + 1 + q.turns[k - 1])
           /\ q.turns[k] = (IF q.x > At(items, q.path[k]) THEN 1 ELSE 0)
     /\ q.path # <<>> => q.fin = 2 * q.path[Len(q.path)] + 1 + q.turns[Len(q.path)]
     /\ q.found = (LeftTurns(q) # {})
     /\ q.found => q.idx = q.path[MaxOf(LeftTurns(q))]
     /\ (q.found /\ IsSorted(Source)) =>
           q.value = MinOf({v \in Stored : v >= q.x})

C11_Witness ==
  /\ Returned /\ IsSorted(Source) /\ q.found
  /\ q.path = <<0, 1>> /\ q.turns = <<0, 1>> /\ q.idx = 0 /\ q.fin = 4
\* C12: every prefetch hint issued at index i of a collection of n > 0
\* elements is for element min(MULTIPLIER * i + OFFSET, n - 1), and so lies in
\* [0, n).
C12_HintIsMultiplierOffset ==
  (Asked /\ len > 0) =>
     \A k \in 1 .. Len(q.hintAt) :
        /\ q.hintAt[k] = Min2(MULTIPLIER(size_of_T) * q.path[k] + OFFSET(size_of_T),
                              len - 1)
        /\ q.hintAt[k] >= 0 /\ q.hintAt[k] < len

\* What the hints are instead: one per visited node, in range, and the same
\* element at every node, since mul has wrapped to 0 and mul_off to usize::MAX.
HintsAreInRangeAndFixed ==
  (Asked /\ len > 0) =>
     /\ Len(q.hintAt) = Len(q.path)
     /\ \A k \in 1 .. Len(q.hintAt) :
           /\ q.hintAt[k] >= 0 /\ q.hintAt[k] < len
           /\ q.hintAt[k] = Min2(Wrap(MaxWord + cachline_off(size_of_T)), len - 1)
\* C13: on a collection built from a sorted sequence (duplicates allowed) the
\* early-exit variant (BRANCHLESS = false) and the fixed-depth variant
\* (BRANCHLESS = true) agree on every query: both None, or stored values that
\* are equal, not necessarily the same occurrence.
C13_VariantsAgree ==
  (phase = "built" /\ IsSorted(Source) /\ q.status # "none"
     /\ qe.status # "none" /\ q.x = qe.x) =>
     /\ qe.status = q.status
     /\ qe.found = q.found
     /\ q.found => (qe.value = q.value /\ qe.value \in Stored)

C13_Witness ==
  /\ phase = "built" /\ IsSorted(Source)
  /\ q.status = "returned" /\ qe.status = "returned" /\ q.x = qe.x
  /\ q.found /\ qe.found /\ qe.value = q.value
  /\ qe.idx # q.idx /\ qe.iters < q.iters
====
